---- MODULE Spec2Model ----
(***************************************************************************)
(* Cordelia (main.go, v0.4): chord identification and key estimation.      *)
(*                                                                         *)
(* Go strings are modelled as sequences of one-character strings, so that  *)
(* slicing, case folding and byte-wise comparison are computed and not     *)
(* assumed: "F#m7" is <<"F","#","m","7">>.  All characters of the model    *)
(* are ASCII, so a byte index and a rune index are the same index.         *)
(***************************************************************************)
EXTENDS Integers, Sequences, FiniteSets, TLC

VARIABLES keySignatures, exitCode, pc, call

vars == <<keySignatures, exitCode, pc, call>>

(***************************************************************************)
(* Bounds of the model                                                     *)
(***************************************************************************)
MaxTokenLen == 3      \* longest token built freely over Alphabet
MaxIntervalLen == 3   \* longest interval list built freely over 0..11
MaxNoteLen == 3       \* longest note list given to Unique
MaxEstimateLen == 2   \* longest note list given to Estimate with free order
MaxOffsetLen == 2     \* longest offset list built freely for GenerateNotes
MaxOffset == 12       \* largest offset value in those lists
MaxChordNames == 2    \* longest chord-name list built freely for --keys
MaxArgs == 1          \* longest positional argument list built freely for main
MaxLines == 2         \* longest batch file built freely, in lines

(***************************************************************************)
(* Generic helpers                                                         *)
(***************************************************************************)
Range(s) == {s[i] : i \in 1..Len(s)}

SeqsUpTo(S, n) == UNION {[1..k -> S] : k \in 0..n}

\* Go's s[lo:hi] on a string or slice; the caller checks SliceOK first,
\* an out-of-range slice expression panics.
SliceOK(s, lo, hi) == 0 <= lo /\ lo <= hi /\ hi <= Len(s)

Slice(s, lo, hi) == SubSeq(s, lo + 1, hi)

\* Go's truncated remainder a % b for b > 0.
GoRem(a, b) == IF a >= 0 THEN a % b ELSE -((-a) % b)

(***************************************************************************)
(* Characters                                                              *)
(***************************************************************************)
Letters == {"A", "B", "C", "D", "E", "F", "G"}

lowerToUpper ==
  [c \in {"a","b","c","d","e","f","g","h","i","j","k","l","m","n","o","p",
          "q","r","s","t","u","v","w","x","y","z"} |->
     CASE c = "a" -> "A" [] c = "b" -> "B" [] c = "c" -> "C" [] c = "d" -> "D"
       [] c = "e" -> "E" [] c = "f" -> "F" [] c = "g" -> "G" [] c = "h" -> "H"
       [] c = "i" -> "I" [] c = "j" -> "J" [] c = "k" -> "K" [] c = "l" -> "L"
       [] c = "m" -> "M" [] c = "n" -> "N" [] c = "o" -> "O" [] c = "p" -> "P"
       [] c = "q" -> "Q" [] c = "r" -> "R" [] c = "s" -> "S" [] c = "t" -> "T"
       [] c = "u" -> "U" [] c = "v" -> "V" [] c = "w" -> "W" [] c = "x" -> "X"
       [] c = "y" -> "Y" [] c = "z" -> "Z"]

\* unicode.ToTitle / strings.ToUpper on one ASCII character.
ToUpperChar(c) == IF c \in DOMAIN lowerToUpper THEN lowerToUpper[c] ELSE c

ToUpper(s) == [i \in 1..Len(s) |-> ToUpperChar(s[i])]

\* strings.Replace(s, old, new, 1) for one-character old and new.
ReplaceFirst(s, old, new) ==
  LET hits == {i \in 1..Len(s) : s[i] = old}
  IN  IF hits = {} THEN s
      ELSE LET k == CHOOSE i \in hits : \A j \in hits : i <= j
           IN  [i \in 1..Len(s) |-> IF i = k THEN new ELSE s[i]]

\* The byte of each character that occurs in a key name.
ByteOf ==
  [c \in {" ", "#", "A", "B", "C", "D", "E", "F", "G", "M",
          "a", "b", "i", "j", "n", "o", "r"} |->
     CASE c = " " -> 32 [] c = "#" -> 35
       [] c = "A" -> 65 [] c = "B" -> 66 [] c = "C" -> 67 [] c = "D" -> 68
       [] c = "E" -> 69 [] c = "F" -> 70 [] c = "G" -> 71 [] c = "M" -> 77
       [] c = "a" -> 97 [] c = "b" -> 98 [] c = "i" -> 105 [] c = "j" -> 106
       [] c = "n" -> 110 [] c = "o" -> 111 [] c = "r" -> 114]

\* Go's a < b on strings: byte-wise lexicographic, a proper prefix is less.
RECURSIVE StringLess(_, _)
StringLess(a, b) ==
  IF b = <<>> THEN FALSE
  ELSE IF a = <<>> THEN TRUE
  ELSE IF ByteOf[Head(a)] /= ByteOf[Head(b)] THEN ByteOf[Head(a)] < ByteOf[Head(b)]
  ELSE StringLess(Tail(a), Tail(b))

(***************************************************************************)
(* Note logic                                                              *)
(***************************************************************************)
Note(original, value) == [Original |-> original, Value |-> value]

ZeroNote == Note(<<>>, 0)

noteMap ==
  (<<"C">> :> 0) @@ (<<"B","#">> :> 0) @@ (<<"C","#">> :> 1) @@ (<<"D","B">> :> 1) @@
  (<<"D">> :> 2) @@ (<<"D","#">> :> 3) @@ (<<"E","B">> :> 3) @@ (<<"E">> :> 4) @@
  (<<"F","B">> :> 4) @@ (<<"F">> :> 5) @@ (<<"E","#">> :> 5) @@ (<<"F","#">> :> 6) @@
  (<<"G","B">> :> 6) @@ (<<"G">> :> 7) @@ (<<"G","#">> :> 8) @@ (<<"A","B">> :> 8) @@
  (<<"A">> :> 9) @@ (<<"A","#">> :> 10) @@ (<<"B","B">> :> 10) @@ (<<"B">> :> 11) @@
  (<<"C","B">> :> 11)

valueToName ==
  << <<"C">>, <<"C","#">>, <<"D">>, <<"D","#">>, <<"E">>, <<"F">>,
     <<"F","#">>, <<"G">>, <<"G","#">>, <<"A">>, <<"A","#">>, <<"B">> >>

\* Mutant of Normalize: the first character is left in the case it was typed.
NormalizeKeepFirst(s) ==
  ReplaceFirst(<<s[1]>> \o (IF Len(s) > 1 THEN ToUpper(Tail(s)) ELSE <<>>), "b", "B")

Normalize(s) ==
  ReplaceFirst(<<ToUpperChar(s[1])>> \o (IF Len(s) > 1 THEN ToUpper(Tail(s)) ELSE <<>>),
               "b", "B")

ParseNote(s) ==
  IF s = <<>> THEN [note |-> ZeroNote, err |-> "cannot parse empty string"]
  ELSE LET normalized == Normalize(s)
       IN  IF normalized \notin DOMAIN noteMap
           THEN [note |-> ZeroNote, err |-> "unrecognized note"]
           ELSE [note |-> Note(s, noteMap[normalized]), err |-> "nil"]

\* Mutant of UniqueFrom: notes are told apart by spelling, not by pitch class.
RECURSIVE UniqueFromBySpelling(_, _, _)
UniqueFromBySpelling(notes, seen, uniqueNotes) ==
  IF notes = <<>> THEN uniqueNotes
  ELSE LET n == Head(notes)
       IN  IF n.Original \notin seen
           THEN UniqueFromBySpelling(Tail(notes), seen \cup {n.Original},
                                     Append(uniqueNotes, n))
           ELSE UniqueFromBySpelling(Tail(notes), seen, uniqueNotes)

RECURSIVE UniqueFrom(_, _, _)
UniqueFrom(notes, seen, uniqueNotes) ==
  IF notes = <<>> THEN uniqueNotes
  ELSE LET n == Head(notes)
       IN  IF n.Value \notin seen
           THEN UniqueFrom(Tail(notes), seen \cup {n.Value}, Append(uniqueNotes, n))
           ELSE UniqueFrom(Tail(notes), seen, uniqueNotes)

Unique(notes) == UniqueFrom(notes, {}, <<>>)

RECURSIVE Join(_, _)
Join(parts, sep) ==
  IF parts = <<>> THEN <<>>
  ELSE IF Len(parts) = 1 THEN parts[1]
  ELSE parts[1] \o sep \o Join(Tail(parts), sep)

SliceToString(notes) ==
  Join([i \in 1..Len(notes) |->
          IF notes[i].Original = <<>> THEN valueToName[notes[i].Value + 1]
          ELSE notes[i].Original],
       <<" ">>)

(***************************************************************************)
(* Chord logic.  A chord's display name is never sliced or compared, so it *)
(* is kept as one atomic string; suffixes are character sequences.         *)
(***************************************************************************)
Chord(name, suffixes, intervals) ==
  [Name |-> name, Suffixes |-> suffixes, Intervals |-> intervals]

ZeroChord == Chord("", <<>>, <<>>)

chordDictionary ==
  << Chord("Major 7th", << <<"m","a","j","7">>, <<"M","7">> >>, <<0, 4, 7, 11>>),
     Chord("Minor-Major 7th", << <<"m","(","m","a","j","7",")">> >>, <<0, 3, 7, 11>>),
     Chord("Minor 7th", << <<"m","7">>, <<"m","i","n","7">> >>, <<0, 3, 7, 10>>),
     Chord("Dominant 7th", << <<"7">>, <<"d","o","m","7">> >>, <<0, 4, 7, 10>>),
     Chord("Major Triad", << <<>>, <<"M">> >>, <<0, 4, 7>>),
     Chord("Minor Triad", << <<"m">>, <<"m","i","n">> >>, <<0, 3, 7>>),
     Chord("Diminished Triad", << <<"d","i","m">> >>, <<0, 3, 6>>),
     Chord("Augmented Triad", << <<"a","u","g">>, <<"+">> >>, <<0, 4, 8>>),
     Chord("Sus2", << <<"s","u","s","2">> >>, <<0, 2, 7>>),
     Chord("Sus4", << <<"s","u","s","4">> >>, <<0, 5, 7>> ) >>

GetDictionary == chordDictionary

ChordResult(root, chord, err, quality, panicked) ==
  [root |-> root, chord |-> chord, err |-> err, quality |-> quality,
   panicked |-> panicked]

InvalidRootResult ==
  ChordResult(ZeroNote, ZeroChord, "invalid root note in chord name", <<>>, FALSE)

PanicResult == ChordResult(ZeroNote, ZeroChord, "nil", <<>>, TRUE)

\* Mutant of FindQuality: the suffix is compared without regard to case.
FindQualityIgnoreCase(rootNote, quality) ==
  LET hits == {i \in 1..Len(chordDictionary) :
                 \E j \in 1..Len(chordDictionary[i].Suffixes) :
                    ToUpper(quality) = ToUpper(chordDictionary[i].Suffixes[j])}
  IN  IF hits = {}
      THEN ChordResult(ZeroNote, ZeroChord, "unknown chord quality", quality, FALSE)
      ELSE LET first == CHOOSE i \in hits : \A j \in hits : i <= j
           IN  ChordResult(rootNote, chordDictionary[first], "nil", quality, FALSE)

\* Lines 495-503: the first entry, in dictionary order, one of whose suffixes
\* equals the quality.
FindQuality(rootNote, quality) ==
  LET hits == {i \in 1..Len(chordDictionary) :
                 \E j \in 1..Len(chordDictionary[i].Suffixes) :
                    quality = chordDictionary[i].Suffixes[j]}
  IN  IF hits = {}
      THEN ChordResult(ZeroNote, ZeroChord, "unknown chord quality", quality, FALSE)
      ELSE LET first == CHOOSE i \in hits : \A j \in hits : i <= j
           IN  ChordResult(rootNote, chordDictionary[first], "nil", quality, FALSE)

\* Mutant of ParseChordName: name[:2] is taken without the length check.
ParseChordNameUnguarded(name) ==
  IF ~SliceOK(name, 0, 2) THEN PanicResult
  ELSE LET two == ParseNote(Slice(name, 0, 2))
       IN  IF two.err = "nil"
           THEN FindQuality(two.note, Slice(name, 2, Len(name)))
           ELSE LET one == ParseNote(Slice(name, 0, 1))
                IN  IF one.err = "nil"
                    THEN FindQuality(one.note, Slice(name, 1, Len(name)))
                    ELSE InvalidRootResult

\* Mutant of ParseChordName: the one-character root is tried first.
ParseChordNameOneFirst(name) ==
  IF Len(name) > 1
  THEN LET one == ParseNote(Slice(name, 0, 1))
       IN  IF one.err = "nil"
           THEN FindQuality(one.note, Slice(name, 1, Len(name)))
           ELSE LET two == ParseNote(Slice(name, 0, 2))
                IN  IF two.err = "nil"
                    THEN FindQuality(two.note, Slice(name, 2, Len(name)))
                    ELSE InvalidRootResult
  ELSE LET whole == ParseNote(name)
       IN  IF whole.err = "nil" THEN FindQuality(whole.note, <<>>)
           ELSE InvalidRootResult

ParseChordName(name) ==
  IF Len(name) > 1
  THEN IF ~SliceOK(name, 0, 2) THEN PanicResult
       ELSE LET two == ParseNote(Slice(name, 0, 2))
            IN  IF two.err = "nil"
                THEN FindQuality(two.note, Slice(name, 2, Len(name)))
                ELSE LET one == ParseNote(Slice(name, 0, 1))
                     IN  IF one.err = "nil"
                         THEN FindQuality(one.note, Slice(name, 1, Len(name)))
                         ELSE InvalidRootResult
  ELSE LET whole == ParseNote(name)
       IN  IF whole.err = "nil" THEN FindQuality(whole.note, <<>>)
           ELSE InvalidRootResult

\* Mutant of NoteValue: the offset is taken downwards from the root.
NoteValueDown(root, interval) == GoRem(root.Value - interval, 12)

\* Line 509.
NoteValue(root, interval) == GoRem(root.Value + interval, 12)

\* Line 511 indexes valueToName with the note value: out of range panics.
GenerateNotesPanics(root, intervals) ==
  \E i \in 1..Len(intervals) :
     NoteValue(root, intervals[i]) \notin 0..(Len(valueToName) - 1)

\* Mutant of GenerateNotes: generated notes are left without a spelling.
GenerateNotesNoOriginal(root, intervals) ==
  [i \in 1..Len(intervals) |-> Note(<<>>, NoteValue(root, intervals[i]))]

GenerateNotes(root, intervals) ==
  [i \in 1..Len(intervals) |->
     LET noteValue == NoteValue(root, intervals[i])
     IN  Note(valueToName[noteValue + 1], noteValue)]

\* sort.Ints
RECURSIVE InsertInt(_, _)
InsertInt(sorted, x) ==
  IF sorted = <<>> THEN <<x>>
  ELSE IF x < Head(sorted) THEN <<x>> \o sorted
  ELSE <<Head(sorted)>> \o InsertInt(Tail(sorted), x)

RECURSIVE SortInts(_)
SortInts(s) == IF s = <<>> THEN <<>> ELSE InsertInt(SortInts(Tail(s)), Head(s))

\* Mutant of CalculateIntervals: a negative difference is not wrapped.
CalculateIntervalsNoWrap(root, notes) ==
  SortInts([i \in 1..Len(notes) |-> notes[i].Value - root.Value])

CalculateIntervals(root, notes) ==
  SortInts([i \in 1..Len(notes) |->
              LET interval == notes[i].Value - root.Value
              IN  IF interval < 0 THEN interval + 12 ELSE interval])

\* Mutant of Check: one required interval in the input is enough.
CheckAnyOffset(c, inputIntervals, inputSet) ==
  IF Len(inputIntervals) < Len(c.Intervals)
  THEN [ok |-> FALSE, reason |-> <<"requires", Len(c.Intervals), Len(inputIntervals)>>]
  ELSE IF \A i \in 1..Len(c.Intervals) : c.Intervals[i] \notin inputSet
       THEN [ok |-> FALSE, reason |-> <<"missing", c.Intervals[1]>>]
       ELSE [ok |-> TRUE, reason |-> <<>>]

\* Chord.Check: the reason is kept as its kind and its numbers.
Check(c, inputIntervals, inputSet) ==
  IF Len(inputIntervals) < Len(c.Intervals)
  THEN [ok |-> FALSE, reason |-> <<"requires", Len(c.Intervals), Len(inputIntervals)>>]
  ELSE LET missing == {i \in 1..Len(c.Intervals) : c.Intervals[i] \notin inputSet}
       IN  IF missing /= {}
           THEN [ok |-> FALSE,
                 reason |-> <<"missing",
                              c.Intervals[CHOOSE i \in missing : \A j \in missing : i <= j]>>]
           ELSE [ok |-> TRUE, reason |-> <<>>]

Match(name, intervals) == [Name |-> name, Intervals |-> intervals]

RECURSIVE MatchesFrom(_, _, _)
MatchesFrom(i, intervals, intervalSet) ==
  IF i > Len(chordDictionary) THEN <<>>
  ELSE LET chordDef == chordDictionary[i]
       IN  (IF Check(chordDef, intervals, intervalSet).ok
            THEN <<Match(chordDef.Name, chordDef.Intervals)>> ELSE <<>>)
           \o MatchesFrom(i + 1, intervals, intervalSet)

\* Mutant of FindMatches: an entry matches only an input of exactly its size.
FindMatchesExactSize(intervals) ==
  SelectSeq(MatchesFrom(1, intervals, Range(intervals)),
            LAMBDA m : Len(m.Intervals) = Len(intervals))

FindMatches(intervals) == MatchesFrom(1, intervals, Range(intervals))

(***************************************************************************)
(* Key logic                                                               *)
(***************************************************************************)
Key(name, notes) == [Name |-> name, Notes |-> notes]

KeyMatch(name, count) == [Name |-> name, MatchCount |-> count]

noteNames == valueToName

flatNames ==
  << <<"C">>, <<"D","b">>, <<"D">>, <<"E","b">>, <<"E">>, <<"F">>,
     <<"G","b">>, <<"G">>, <<"A","b">>, <<"A">>, <<"B","b">>, <<"B">> >>

majorPattern == <<0, 2, 4, 5, 7, 9, 11>>

\* Mutant of minorPattern: the harmonic minor, with a raised seventh.
minorPatternHarmonic == <<0, 2, 3, 5, 7, 8, 11>>

minorPattern == <<0, 2, 3, 5, 7, 8, 10>>

\* Mutant of PatternNotes: the sum is not reduced modulo 12.
PatternNotesNoWrap(i, pattern) == {i + pattern[k] : k \in 1..Len(pattern)}

PatternNotes(i, pattern) == {(i + pattern[k]) % 12 : k \in 1..Len(pattern)}

\* The table init() leaves behind: for i = 0..11 the major key, then the minor.
RECURSIVE KeysFrom(_)
KeysFrom(i) ==
  IF i >= 12 THEN <<>>
  ELSE << Key(flatNames[i + 1] \o <<" ","M","a","j","o","r">>, PatternNotes(i, majorPattern)),
          Key(noteNames[i + 1] \o <<" ","M","i","n","o","r">>, PatternNotes(i, minorPattern)) >>
       \o KeysFrom(i + 1)

InitKeySignatures == KeysFrom(0)

\* Mutant of KeyMatchLess: no tie-break on the name.
KeyMatchLessCountOnly(a, b) == a.MatchCount > b.MatchCount

\* The comparison given to sort.Slice in Estimate.
KeyMatchLess(a, b) ==
  IF a.MatchCount /= b.MatchCount THEN a.MatchCount > b.MatchCount
  ELSE StringLess(a.Name, b.Name)

RECURSIVE InsertKeyMatch(_, _)
InsertKeyMatch(sorted, x) ==
  IF sorted = <<>> THEN <<x>>
  ELSE IF KeyMatchLess(x, Head(sorted)) THEN <<x>> \o sorted
  ELSE <<Head(sorted)>> \o InsertKeyMatch(Tail(sorted), x)

RECURSIVE SortKeyMatches(_)
SortKeyMatches(s) ==
  IF s = <<>> THEN <<>> ELSE InsertKeyMatch(SortKeyMatches(Tail(s)), Head(s))

\* Mutant of KeyCount: every note is counted, repeated pitch classes too.
KeyCountNoDedupe(keySig, notes) ==
  Cardinality({i \in 1..Len(notes) : notes[i].Value \in keySig.Notes})

KeyCount(keySig, notes) ==
  LET uniqueNotes == Unique(notes)
  IN  Cardinality({i \in 1..Len(uniqueNotes) : uniqueNotes[i].Value \in keySig.Notes})

RECURSIVE KeyMatchesFrom(_, _)
KeyMatchesFrom(i, notes) ==
  IF i > Len(keySignatures) THEN <<>>
  ELSE LET count == KeyCount(keySignatures[i], notes)
       IN  (IF count > 0 THEN <<KeyMatch(keySignatures[i].Name, count)>> ELSE <<>>)
           \o KeyMatchesFrom(i + 1, notes)

Estimate(notes) ==
  IF Len(notes) = 0 THEN <<>>
  ELSE SortKeyMatches(KeyMatchesFrom(1, notes))

(***************************************************************************)
(* Key estimation from chord names (--keys without --batch).  A printed    *)
(* line is the format string of its Printf/Println with its arguments.     *)
(***************************************************************************)
Line(fmt, args) == [fmt |-> fmt, args |-> args]

\* sort.Slice(uniqueNotes, by Value): the values are pairwise distinct.
RECURSIVE InsertByValue(_, _)
InsertByValue(sorted, n) ==
  IF sorted = <<>> THEN <<n>>
  ELSE IF n.Value < Head(sorted).Value THEN <<n>> \o sorted
  ELSE <<Head(sorted)>> \o InsertByValue(Tail(sorted), n)

RECURSIVE SortByValue(_)
SortByValue(s) ==
  IF s = <<>> THEN <<>> ELSE InsertByValue(SortByValue(Tail(s)), Head(s))

\* Mutant of printKeyEstimation: the aggregated notes are not sorted by value.
printKeyEstimationUnsorted(allNotes) ==
  LET uniqueNotes == Unique(allNotes)
      keyMatches == Estimate(uniqueNotes)
  IN  << Line("---", <<>>),
         Line("Key Estimation Results", <<>>),
         Line("Aggregated Notes: %s", <<SliceToString(uniqueNotes)>>) >>
      \o (IF Len(keyMatches) = 0
          THEN << Line("Could not determine likely keys.", <<>>) >>
          ELSE << Line("Likely Keys:", <<>>) >>
               \o [i \in 1..Len(keyMatches) |->
                     Line(" %s (%d matches)",
                          <<keyMatches[i].Name, keyMatches[i].MatchCount>>)])

printKeyEstimation(allNotes) ==
  LET uniqueNotes == SortByValue(Unique(allNotes))
      keyMatches == Estimate(uniqueNotes)
  IN  << Line("---", <<>>),
         Line("Key Estimation Results", <<>>),
         Line("Aggregated Notes: %s", <<SliceToString(uniqueNotes)>>) >>
      \o (IF Len(keyMatches) = 0
          THEN << Line("Could not determine likely keys.", <<>>) >>
          ELSE << Line("Likely Keys:", <<>>) >>
               \o [i \in 1..Len(keyMatches) |->
                     Line(" %s (%d matches)",
                          <<keyMatches[i].Name, keyMatches[i].MatchCount>>)])

\* The loop of runKeyEstimationFromArgs: the notes gathered from the names,
\* or the first name that does not parse.
RECURSIVE GatherNotes(_, _)
GatherNotes(chordNames, allNotes) ==
  IF chordNames = <<>> THEN [ok |-> TRUE, allNotes |-> allNotes, name |-> <<>>]
  ELSE LET parsed == ParseChordName(Head(chordNames))
       IN  IF parsed.err /= "nil"
           THEN [ok |-> FALSE, allNotes |-> allNotes, name |-> Head(chordNames)]
           ELSE GatherNotes(Tail(chordNames),
                            allNotes \o GenerateNotes(parsed.root, parsed.chord.Intervals))

runKeyEstimationFromArgs(chordNames, code) ==
  LET gathered == GatherNotes(chordNames, <<>>)
      first == << Line("Processing Chords: %s", <<Join(chordNames, <<" ">>)>>) >>
  IN  IF ~gathered.ok
      THEN [stdout |-> first,
            stderr |-> << Line("Error: Could not parse chord name '%s': %v",
                               <<gathered.name>>) >>,
            exitCode |-> 1]
      ELSE [stdout |-> first \o printKeyEstimation(gathered.allNotes),
            stderr |-> <<>>,
            exitCode |-> code]

(***************************************************************************)
(* The command line: main and the three modes it chooses between.  The     *)
(* flags are a record [help, keys, batch, notes, inversions, verbose]; the *)
(* batch file is [exists, statErr, size, lines, scanErr]: whether os.Open   *)
(* succeeds, whether file.Stat fails, the size Stat reports, the lines the *)
(* scanner yields (each without its line end and one carriage return       *)
(* before it) and the error the scanner stops with ("nil" at the end of    *)
(* the file).  A character that has no escape in a string is written by    *)
(* its code point ("U+000B").  A run's result holds                        *)
(* what it printed, the value it leaves in exitCode and, in exits, the     *)
(* codes of its calls of the exit hook in order: os.Exit ends the process  *)
(* at the first of them, the test hook keeps the first.                    *)
(***************************************************************************)
\* unicode.IsSpace, which strings.TrimSpace and strings.Fields use: the
\* characters with the Unicode property White_Space.
WhiteSpace ==
  { "\t", "\n", "U+000B", "\f", "\r", " ", "U+0085", "U+00A0", "U+1680",
    "U+2000", "U+2001", "U+2002", "U+2003", "U+2004", "U+2005", "U+2006",
    "U+2007", "U+2008", "U+2009", "U+200A", "U+2028", "U+2029", "U+202F",
    "U+205F", "U+3000" }

\* strings.TrimSpace
RECURSIVE TrimLeft(_)
TrimLeft(s) ==
  IF s /= <<>> /\ Head(s) \in WhiteSpace THEN TrimLeft(Tail(s)) ELSE s

RECURSIVE TrimRight(_)
TrimRight(s) ==
  IF s /= <<>> /\ s[Len(s)] \in WhiteSpace THEN TrimRight(SubSeq(s, 1, Len(s) - 1)) ELSE s

TrimSpace(s) == TrimRight(TrimLeft(s))

\* strings.Fields: the maximal runs of characters that are not white space.
RECURSIVE FieldsFrom(_, _, _)
FieldsFrom(s, cur, acc) ==
  IF s = <<>> THEN (IF cur = <<>> THEN acc ELSE Append(acc, cur))
  ELSE IF Head(s) \in WhiteSpace
       THEN FieldsFrom(Tail(s), <<>>, IF cur = <<>> THEN acc ELSE Append(acc, cur))
       ELSE FieldsFrom(Tail(s), Append(cur, Head(s)), acc)

Fields(s) == FieldsFrom(s, <<>>, <<>>)

\* strings.Split(s, ","): the parts between commas, empty parts kept.
RECURSIVE SplitFrom(_, _, _)
SplitFrom(s, cur, acc) ==
  IF s = <<>> THEN Append(acc, cur)
  ELSE IF Head(s) = "," THEN SplitFrom(Tail(s), <<>>, Append(acc, cur))
       ELSE SplitFrom(Tail(s), Append(cur, Head(s)), acc)

SplitComma(s) == SplitFrom(s, <<>>, <<>>)

NoError == Line("", <<>>)

RECURSIVE ParseNotesFrom(_, _)
ParseNotesFrom(noteStrings, notes) ==
  IF noteStrings = <<>>
  THEN IF Len(notes) = 0
       THEN [ok |-> FALSE, notes |-> <<>>, err |-> Line("no valid notes provided", <<>>)]
       ELSE [ok |-> TRUE, notes |-> Unique(notes), err |-> NoError]
  ELSE LET s == TrimSpace(Head(noteStrings))
       IN  IF s = <<>> THEN ParseNotesFrom(Tail(noteStrings), notes)
           ELSE IF ParseNote(s).err /= "nil"
                THEN [ok |-> FALSE, notes |-> <<>>,
                      err |-> Line("invalid note '%s' in input", <<s>>)]
                ELSE ParseNotesFrom(Tail(noteStrings), Append(notes, ParseNote(s).note))

parseAndValidateNotes(noteStrings) == ParseNotesFrom(noteStrings, <<>>)

\* The match strings of the three printers: root, chord name, subset mark.
MatchString(root, notes, m) ==
  [root |-> root.Original, name |-> m.Name, subset |-> Len(notes) > Len(m.Intervals)]

MatchStrings(root, notes, matches) ==
  [k \in 1..Len(matches) |-> MatchString(root, notes, matches[k])]

MatchedChords(root, notes, matches) ==
  << Line("Matched Chords:", <<>>) >>
  \o (IF Len(matches) = 0 THEN << Line(" - None", <<>>) >>
      ELSE [k \in 1..Len(matches) |->
              Line(" - %s %s", <<MatchString(root, notes, matches[k])>>)])
  \o << Line("", <<>>) >>

printStandardOutput(root, notes, intervals, matches) ==
  << Line("Input Notes: %s", <<SliceToString(notes)>>),
     Line("Root: %s", <<root.Original>>),
     Line("Intervals: %v", <<intervals>>) >>
  \o MatchedChords(root, notes, matches)

\* The two verdict lines start with a check mark and a cross in the source.
printVerboseOutput(root, notes, intervals, matches) ==
  << Line("Input Notes: %s", <<SliceToString(notes)>>),
     Line("Root: %s", <<root.Original>>),
     Line("Input Intervals: %v", <<intervals>>),
     Line("---", <<>>),
     Line("Checking Dictionary...", <<>>) >>
  \o [k \in 1..Len(GetDictionary) |->
        LET c == GetDictionary[k]
            checked == Check(c, intervals, Range(intervals))
        IN  IF checked.ok THEN Line("Match: %s %v", <<c.Name, c.Intervals>>)
            ELSE Line("No Match: %s %v (%s)", <<c.Name, c.Intervals, checked.reason>>)]
  \o << Line("---", <<>>) >>
  \o MatchedChords(root, notes, matches)

RECURSIVE RootsOutput(_, _, _)
RootsOutput(rootsToTest, notes, verbose) ==
  IF rootsToTest = <<>> THEN <<>>
  ELSE LET root == Head(rootsToTest)
           intervals == CalculateIntervals(root, notes)
           matches == FindMatches(intervals)
       IN  (IF verbose THEN printVerboseOutput(root, notes, intervals, matches)
            ELSE printStandardOutput(root, notes, intervals, matches))
           \o RootsOutput(Tail(rootsToTest), notes, verbose)

Run(stdout, stderr, code, exits) ==
  [stdout |-> stdout, stderr |-> stderr, exitCode |-> code, exits |-> exits]

runSingleChordMode(noteStrings, flags, code) ==
  LET parsed == parseAndValidateNotes(noteStrings)
  IN  IF ~parsed.ok
      THEN Run(<<>>, << Line("Error: %v", <<parsed.err>>) >>, 1, <<>>)
      ELSE Run(RootsOutput(IF flags.inversions THEN parsed.notes ELSE <<parsed.notes[1]>>,
                           parsed.notes, flags.verbose),
               <<>>, code, <<>>)

\* The notes of the tokens of a line that parse.
RECURSIVE ValidNotesOf(_)
ValidNotesOf(noteStrings) ==
  IF noteStrings = <<>> THEN <<>>
  ELSE (IF ParseNote(Head(noteStrings)).err = "nil"
        THEN <<ParseNote(Head(noteStrings)).note>> ELSE <<>>)
       \o ValidNotesOf(Tail(noteStrings))

\* Mutant of BatchLine: a line with an unparseable note is reported, but its
\* valid notes are still gathered for the key estimation.
BatchLineKeepsValidNotes(acc, lineNum, text, keys) ==
  LET line == TrimSpace(text)
      parsed == parseAndValidateNotes(Fields(line))
  IN  IF line = <<>>
      THEN [acc EXCEPT !.stderr = Append(@, Line("Error on line %d: No notes provided",
                                                  <<lineNum>>)),
                       !.batchHasErrors = TRUE]
      ELSE IF ~parsed.ok
      THEN [acc EXCEPT !.stderr = Append(@, Line("Error on line %d: %v",
                                                  <<lineNum, parsed.err>>)),
                       !.allNotes = IF keys THEN @ \o ValidNotesOf(Fields(line)) ELSE @,
                       !.batchHasErrors = TRUE]
      ELSE LET notes == parsed.notes
               root == notes[1]
               matches == FindMatches(CalculateIntervals(root, notes))
           IN  [acc EXCEPT
                  !.allNotes = IF keys THEN @ \o notes ELSE @,
                  !.stdout = Append(@,
                     IF Len(matches) = 0
                     THEN Line("[%d] %s -> No match found", <<lineNum, line>>)
                     ELSE Line("[%d] %s -> %s",
                               <<lineNum, line, MatchStrings(root, notes, matches)>>))]

\* One line of the batch loop added to what the loop has gathered so far.
BatchLine(acc, lineNum, text, keys) ==
  LET line == TrimSpace(text)
      parsed == parseAndValidateNotes(Fields(line))
  IN  IF line = <<>>
      THEN [acc EXCEPT !.stderr = Append(@, Line("Error on line %d: No notes provided",
                                                  <<lineNum>>)),
                       !.batchHasErrors = TRUE]
      ELSE IF ~parsed.ok
      THEN [acc EXCEPT !.stderr = Append(@, Line("Error on line %d: %v",
                                                  <<lineNum, parsed.err>>)),
                       !.batchHasErrors = TRUE]
      ELSE LET notes == parsed.notes
               root == notes[1]
               matches == FindMatches(CalculateIntervals(root, notes))
           IN  [acc EXCEPT
                  !.allNotes = IF keys THEN @ \o notes ELSE @,
                  !.stdout = Append(@,
                     IF Len(matches) = 0
                     THEN Line("[%d] %s -> No match found", <<lineNum, line>>)
                     ELSE Line("[%d] %s -> %s",
                               <<lineNum, line, MatchStrings(root, notes, matches)>>))]

RECURSIVE BatchLoop(_, _, _, _)
BatchLoop(lines, lineNum, keys, acc) ==
  IF lines = <<>> THEN acc
  ELSE BatchLoop(Tail(lines), lineNum + 1, keys,
                 BatchLine(acc, lineNum + 1, Head(lines), keys))

runBatchMode(filename, file, keys, code) ==
  IF ~file.exists
  THEN Run(<<>>, << Line("Error: File not found: %s", <<filename>>) >>, 1, <<>>)
  ELSE IF file.statErr
  THEN Run(<<>>, << Line("Error: Could not get file stats for %s", <<filename>>) >>, 1, <<>>)
  ELSE IF file.size = 0 THEN Run(<<>>, <<>>, code, <<0>>)
  ELSE LET done == BatchLoop(file.lines, 0, keys,
                             [stdout |-> << Line("Processing %s...", <<filename>>) >>,
                              stderr |-> <<>>, allNotes |-> <<>>,
                              batchHasErrors |-> FALSE])
       IN  IF file.scanErr /= "nil"
           THEN Run(done.stdout,
                    Append(done.stderr, Line("Error reading file: %v", <<file.scanErr>>)),
                    1, <<>>)
           ELSE Run(done.stdout \o (IF keys THEN printKeyEstimation(done.allNotes) ELSE <<>>),
                    done.stderr,
                    IF done.batchHasErrors THEN 2 ELSE code,
                    <<>>)

\* flag.Usage as setupFlags sets it; PrintDefaults lists the six flags.
Usage ==
  << Line("Usage of %s:", <<"cordelia">>),
     Line("  Identify a chord from notes: %s [flags] <note1> <note2> ...", <<"cordelia">>),
     Line("  Estimate key from chords:    %s --keys <chord1> <chord2> ...", <<"cordelia">>),
     Line("  Batch processing from file:  %s --batch <file> [flags]", <<"cordelia">>),
     Line("Flags:", <<>>),
     Line("PrintDefaults", <<"batch", "help", "inversions", "keys", "notes", "verbose">>) >>

\* validateFlags returns nil on both of its paths.
validateFlags(flags) ==
  IF ~flags.keys /\ flags.batch /= "" THEN "nil" ELSE "nil"

\* Mutant of getNoteStringsFromInput: --notes is split even when it is empty.
getNoteStringsAlwaysSplit(flags, posArgs) ==
  IF flags.notes /= <<>> \/ Len(posArgs) = 0
  THEN [noteStrings |-> SplitComma(flags.notes),
        stderr |-> IF Len(posArgs) > 0
                   THEN << Line("Warning: Both positional arguments and --notes provided; using --notes.", <<>>) >>
                   ELSE <<>>]
  ELSE [noteStrings |-> posArgs, stderr |-> <<>>]

getNoteStringsFromInput(flags, posArgs) ==
  IF flags.notes /= <<>>
  THEN [noteStrings |-> SplitComma(flags.notes),
        stderr |-> IF Len(posArgs) > 0
                   THEN << Line("Warning: Both positional arguments and --notes provided; using --notes.", <<>>) >>
                   ELSE <<>>]
  ELSE [noteStrings |-> posArgs, stderr |-> <<>>]

\* The exit hook of the tests, exitCapture.Exit: the first code is kept.
\* (os.Exit ends the process with the code of the first call.)
Exit(captured, code) == IF captured = -1 THEN code ELSE captured

RECURSIVE ExitAll(_, _)
ExitAll(captured, exits) ==
  IF exits = <<>> THEN captured ELSE ExitAll(Exit(captured, Head(exits)), Tail(exits))

\* A finished run of main: the mode it took and what the mode left behind,
\* with the closing exit(exitCode) when main reaches it, and the code the
\* hook reports.
Finished(mode, run, closing) ==
  LET exits == run.exits \o (IF closing THEN <<run.exitCode>> ELSE <<>>)
  IN  [mode |-> mode, stdout |-> run.stdout, stderr |-> run.stderr,
       exitCode |-> run.exitCode, exits |-> exits, reported |-> ExitAll(-1, exits)]

main(flags, args, file, code) ==
  IF flags.help
  THEN Finished("help", Run(<<>>, Usage, code, <<0>>), FALSE)
  ELSE IF validateFlags(flags) /= "nil"
  THEN Finished("invalid flags", Run(<<>>, << Line("%v", <<validateFlags(flags)>>) >>,
                                     code, <<1>>), FALSE)
  ELSE IF flags.keys
  THEN IF flags.batch /= ""
       THEN Finished("runBatchMode", runBatchMode(flags.batch, file, flags.keys, code), TRUE)
       ELSE IF Len(args) = 0
            THEN Finished("no chord names",
                          Run(<<>>, << Line("Error: No chord names provided for key estimation.", <<>>) >>,
                              code, <<1>>), FALSE)
            ELSE LET run == runKeyEstimationFromArgs(args, code)
                 IN  Finished("runKeyEstimationFromArgs",
                              Run(run.stdout, run.stderr, run.exitCode, <<>>), TRUE)
  ELSE LET input == getNoteStringsFromInput(flags, args)
       IN  IF Len(input.noteStrings) = 0
           THEN Finished("no notes",
                         Run(<<>>, input.stderr \o << Line("Error: No notes provided.", <<>>) >>,
                             code, <<1>>), FALSE)
           ELSE LET run == runSingleChordMode(input.noteStrings, flags, code)
                IN  Finished("runSingleChordMode",
                             Run(run.stdout, input.stderr \o run.stderr, run.exitCode, <<>>),
                             TRUE)

(***************************************************************************)
(* Inputs                                                                  *)
(***************************************************************************)
PitchClasses == 0..11

Alphabet == Letters \cup {"a", "b", "c", "d", "e", "f", "g", "#", "H", "1"}

Tokens == SeqsUpTo(Alphabet, MaxTokenLen)

DictionarySuffixes ==
  UNION {Range(chordDictionary[i].Suffixes) : i \in 1..Len(chordDictionary)}

Qualities ==
  DictionarySuffixes \cup
  { <<"m","a","j","9">>, <<"m","M">>, <<"M","I","N">>, <<"#">>, <<"b">>, <<"7","m">> }

\* Free tokens, and every one- or two-character prefix followed by a quality.
ChordTokens ==
  Tokens \cup {r \o q : r \in SeqsUpTo(Alphabet, 2) \ {<<>>}, q \in Qualities}

RECURSIVE Ascending(_)
Ascending(S) ==
  IF S = {} THEN <<>>
  ELSE LET m == CHOOSE x \in S : \A y \in S : x <= y
       IN  <<m>> \o Ascending(S \ {m})

\* Free short lists, and every set of intervals as CalculateIntervals gives it.
IntervalLists ==
  SeqsUpTo(PitchClasses, MaxIntervalLen) \cup {Ascending(S) : S \in SUBSET PitchClasses}

Spellings ==
  { <<"C">>, <<"B","#">>, <<"c">>, <<"C","#">>, <<"D","b">>, <<"E">>, <<"F","b">>, <<"G">> }

ParsedNotes == {ParseNote(t).note : t \in Spellings}

NoteLists == SeqsUpTo(ParsedNotes, MaxNoteLen)

CanonicalNote(v) == Note(valueToName[v + 1], v)

\* Free short lists, and every set of pitch classes in ascending order.
EstimateInputs ==
  SeqsUpTo({CanonicalNote(v) : v \in PitchClasses} \cup ParsedNotes, MaxEstimateLen)
  \cup {[i \in 1..Cardinality(S) |-> CanonicalNote(Ascending(S)[i])] : S \in SUBSET PitchClasses}

Roots ==
  {CanonicalNote(v) : v \in PitchClasses} \cup
  {ParseNote(t).note : t \in {<<"B","b">>, <<"a">>, <<"A">>, <<"F","#">>}}

OffsetLists ==
  SeqsUpTo(0..MaxOffset, MaxOffsetLen) \cup
  {chordDictionary[i].Intervals : i \in 1..Len(chordDictionary)}

ChordNames ==
  { <<"C">>, <<"G">>, <<"A","m">>, <<"F">>, <<"F","#","m","7">>, <<"B","b","7">>,
    <<"H">>, <<"C","m","a","j","9">> }

ChordNameLists ==
  SeqsUpTo(ChordNames, MaxChordNames) \cup
  { << <<"C">>, <<"G">>, <<"A","m">>, <<"F">> >>, << <<"C">>, <<"G">>, <<"A","m">> >> }

FlagSets ==
  [help : BOOLEAN, keys : BOOLEAN, batch : {"", "chords.txt"},
   notes : { <<>>, <<"C",",",",","e","\n",","," ","G">> },
   inversions : BOOLEAN, verbose : BOOLEAN]

ArgTokens == { <<"C">>, <<"A","m">>, <<"X">>, <<"G","\n">> }

ArgLists ==
  SeqsUpTo(ArgTokens, MaxArgs) \cup
  { << <<"C">>, <<"E">>, <<"G">> >>, << <<"E">>, <<"G">>, <<"C">>, <<"D">> >>,
    << <<"C">>, <<"G">>, <<"A","m">> >> }

\* The bytes of a line with its line end.
RECURSIVE FileSize(_)
FileSize(lines) ==
  IF lines = <<>> THEN 0 ELSE Len(Head(lines)) + 1 + FileSize(Tail(lines))

BatchLines ==
  { <<>>, <<"C"," ","E"," ","G">>, <<" ","C"," "," ","X"," ","G"," ">>,
    <<"D"," ","A"," ","F","#">> }

\* A file that opens and is read to its end.
OpenedFile(lines) ==
  [exists |-> TRUE, statErr |-> FALSE, size |-> FileSize(lines), lines |-> lines,
   scanErr |-> "nil"]

\* A file the scanner stops in with an error, after the lines it yielded: a
\* line beyond bufio.MaxScanTokenSize, a directory.
FailingFile(lines, scanErr) ==
  [exists |-> TRUE, statErr |-> FALSE, size |-> FileSize(lines) + 65537, lines |-> lines,
   scanErr |-> scanErr]

StatFailedFile ==
  [exists |-> TRUE, statErr |-> TRUE, size |-> 0, lines |-> <<>>, scanErr |-> "nil"]

MissingFile ==
  [exists |-> FALSE, statErr |-> FALSE, size |-> 0, lines |-> <<>>, scanErr |-> "nil"]

\* Every file of at most MaxLines lines, the README's chords.txt, a file with
\* carriage returns, form feeds and other white space in its lines, files
\* with a line too long behind at most one line, and files that do not open.
Files ==
  {OpenedFile(lines) : lines \in SeqsUpTo(BatchLines, MaxLines)} \cup
  {FailingFile(lines, "bufio.Scanner: token too long") :
     lines \in SeqsUpTo(BatchLines, MaxLines - 1)} \cup
  { OpenedFile(<< <<"C"," ","G"," ","E">>, <<"D"," ","A"," ","F","#">>,
                  <<"G"," ","D"," ","B">> >>),
    OpenedFile(<< <<"C"," ","E"," ","G","\r">>, <<"\f">>,
                  <<"D","\r","A","U+00A0","F","#","U+000B">> >>),
    StatFailedFile, MissingFile }

(***************************************************************************)
(* The state machine: package initialisation, then one call at a time of   *)
(* an engine function or of the --keys mode; a call's frame is dropped     *)
(* when the caller goes on to its next case.                               *)
(***************************************************************************)
NoCall == [op |-> "none"]

Init ==
  /\ keySignatures = InitKeySignatures
  /\ exitCode = 0
  /\ pc = "idle"
  /\ call = NoCall

CallParseNote ==
  /\ pc = "idle"
  /\ \E s \in Tokens :
       call' = [op |-> "ParseNote", s |-> s, ret |-> ParseNote(s)]
  /\ pc' = "called"
  /\ UNCHANGED <<keySignatures, exitCode>>

CallUnique ==
  /\ pc = "idle"
  /\ \E notes \in NoteLists :
       call' = [op |-> "Unique", notes |-> notes, ret |-> Unique(notes)]
  /\ pc' = "called"
  /\ UNCHANGED <<keySignatures, exitCode>>

CallParseChordName ==
  /\ pc = "idle"
  /\ \E name \in ChordTokens :
       call' = [op |-> "ParseChordName", name |-> name, ret |-> ParseChordName(name)]
  /\ pc' = "called"
  /\ UNCHANGED <<keySignatures, exitCode>>

CallGenerateNotes ==
  /\ pc = "idle"
  /\ \E root \in Roots, intervals \in OffsetLists :
       call' = [op |-> "GenerateNotes", root |-> root, intervals |-> intervals,
                panicked |-> GenerateNotesPanics(root, intervals),
                ret |-> IF GenerateNotesPanics(root, intervals) THEN <<>>
                        ELSE GenerateNotes(root, intervals)]
  /\ pc' = "called"
  /\ UNCHANGED <<keySignatures, exitCode>>

CallCalculateIntervals ==
  /\ pc = "idle"
  /\ \E notes \in NoteLists \ {<<>>} : \E root \in Range(notes) :
       call' = [op |-> "CalculateIntervals", root |-> root, notes |-> notes,
                ret |-> CalculateIntervals(root, notes)]
  /\ pc' = "called"
  /\ UNCHANGED <<keySignatures, exitCode>>

CallFindMatches ==
  /\ pc = "idle"
  /\ \E intervals \in IntervalLists :
       call' = [op |-> "FindMatches", intervals |-> intervals,
                ret |-> FindMatches(intervals)]
  /\ pc' = "called"
  /\ UNCHANGED <<keySignatures, exitCode>>

CallEstimate ==
  /\ pc = "idle"
  /\ \E notes \in EstimateInputs :
       call' = [op |-> "Estimate", notes |-> notes, ret |-> Estimate(notes)]
  /\ pc' = "called"
  /\ UNCHANGED <<keySignatures, exitCode>>

CallRunKeyEstimationFromArgs ==
  /\ pc = "idle"
  /\ \E chordNames \in ChordNameLists \ {<<>>} :
       LET run == runKeyEstimationFromArgs(chordNames, exitCode)
       IN  /\ call' = [op |-> "runKeyEstimationFromArgs", chordNames |-> chordNames,
                       stdout |-> run.stdout, stderr |-> run.stderr]
           /\ exitCode' = run.exitCode
  /\ pc' = "called"
  /\ UNCHANGED keySignatures

\* The caller moves on to its next case with the globals reset.
Return ==
  /\ pc = "called"
  /\ pc' = "idle"
  /\ call' = NoCall
  /\ exitCode' = 0
  /\ UNCHANGED keySignatures

Next ==
  \/ CallParseNote
  \/ CallUnique
  \/ CallParseChordName
  \/ CallGenerateNotes
  \/ CallCalculateIntervals
  \/ CallFindMatches
  \/ CallEstimate
  \/ CallRunKeyEstimationFromArgs
  \/ Return

Spec == Init /\ [][Next]_vars

\* One run of the program: main from the flags, the positional arguments and
\* the batch file as it is on disk.
Main ==
  /\ pc = "idle"
  /\ \E flags \in FlagSets, args \in ArgLists, file \in Files :
       /\ call' = [op |-> "main", flags |-> flags, args |-> args, file |-> file,
                   run |-> main(flags, args, file, exitCode)]
       /\ exitCode' = call'.run.exitCode
  /\ pc' = "called"
  /\ UNCHANGED keySignatures

CliNext ==
  \/ Main
  \/ Return

CliSpec == Init /\ [][CliNext]_vars

TypeOK ==
  /\ pc \in {"idle", "called"}
  /\ exitCode \in {0, 1, 2}
  /\ Len(keySignatures) = 24

(***************************************************************************)
(* Claims                                                                  *)
(***************************************************************************)
DictionaryIndexes == 1..Len(chordDictionary)

\* The dictionary entries all of whose offsets occur in the list.
EntriesWithin(intervals) ==
  {i \in DictionaryIndexes : Range(chordDictionary[i].Intervals) \subseteq Range(intervals)}

MatchNames(matches) == [k \in 1..Len(matches) |-> matches[k].Name]

\* C1: FindMatches returns exactly the dictionary entries whose every offset
\* occurs in the input list (repeated values or not), each once and in
\* dictionary order; an entry with k offsets is never returned when the input
\* has fewer than k distinct values; on the values {0,4,7} the result is
\* exactly [Major Triad].
C1_FindMatchesExact ==
  call.op = "FindMatches" =>
    LET expected == Ascending(EntriesWithin(call.intervals))
    IN  /\ call.ret = [k \in 1..Len(expected) |->
                         Match(chordDictionary[expected[k]].Name,
                               chordDictionary[expected[k]].Intervals)]
        /\ \A i \in DictionaryIndexes :
             Cardinality(Range(call.intervals)) < Len(chordDictionary[i].Intervals)
               => chordDictionary[i].Name \notin Range(MatchNames(call.ret))
        /\ Range(call.intervals) = {0, 4, 7} => MatchNames(call.ret) = <<"Major Triad">>

C1_Witness ==
  /\ call.op = "FindMatches"
  /\ call.intervals = <<0, 4, 7>>
  /\ MatchNames(call.ret) = <<"Major Triad">>

\* The root prefix the greedy rule takes from a token: two characters when
\* they spell a pitch, else one.
TwoCharRoot(name) == Len(name) >= 2 /\ ParseNote(SubSeq(name, 1, 2)).err = "nil"

OneCharRoot(name) == Len(name) >= 1 /\ ParseNote(SubSeq(name, 1, 1)).err = "nil"

RootLen(name) == IF TwoCharRoot(name) THEN 2 ELSE 1

RestOf(name) == SubSeq(name, RootLen(name) + 1, Len(name))

EntriesWithSuffix(q) ==
  {i \in DictionaryIndexes : q \in Range(chordDictionary[i].Suffixes)}

ParsesAs(name, original, chordName) ==
  call.name = name =>
    /\ call.ret.err = "nil"
    /\ call.ret.root.Original = original
    /\ call.ret.chord.Name = chordName

\* C2: when ParseChordName succeeds, the root is the pitch of the first two
\* characters whenever they spell a pitch (else of the first character), its
\* Original is that prefix as typed, and the definition is the first
\* dictionary entry with a suffix equal, case-sensitively, to the rest of the
\* token; F#m7, Bb7, C, CM7 and Cm7 parse as the claim says.
C2_ParseChordNameRootAndQuality ==
  call.op = "ParseChordName" =>
    /\ call.ret.err = "nil" =>
         LET prefix == SubSeq(call.name, 1, RootLen(call.name))
             hits == EntriesWithSuffix(RestOf(call.name))
         IN  /\ call.ret.root.Original = prefix
             /\ call.ret.root = ParseNote(prefix).note
             /\ hits /= {}
             /\ call.ret.chord = chordDictionary[Ascending(hits)[1]]
    /\ ParsesAs(<<"F","#","m","7">>, <<"F","#">>, "Minor 7th")
    /\ ParsesAs(<<"B","b","7">>, <<"B","b">>, "Dominant 7th")
    /\ ParsesAs(<<"C">>, <<"C">>, "Major Triad")
    /\ ParsesAs(<<"C","M","7">>, <<"C">>, "Major 7th")
    /\ ParsesAs(<<"C","m","7">>, <<"C">>, "Minor 7th")

C2_Witness ==
  /\ call.op = "ParseChordName"
  /\ call.name = <<"F","#","m","7">>
  /\ call.ret.err = "nil"
  /\ call.ret.root = Note(<<"F","#">>, 6)
  /\ call.ret.chord.Name = "Minor 7th"

\* C3: ParseChordName never panics; every token gets nil or an error; the
\* error is InvalidRoot exactly when neither the first two characters nor
\* the first character spell a pitch (the empty token included), and
\* UnknownQuality exactly when a root parses and the rest is no dictionary
\* suffix; "H" gives InvalidRoot and "Cmaj9" gives UnknownQuality.
C3_ParseChordNameErrors ==
  call.op = "ParseChordName" =>
    LET rootParses == TwoCharRoot(call.name) \/ OneCharRoot(call.name)
    IN  /\ ~call.ret.panicked
        /\ call.ret.err \in {"nil", "invalid root note in chord name", "unknown chord quality"}
        /\ call.ret.err = "invalid root note in chord name" <=> ~rootParses
        /\ call.ret.err = "unknown chord quality"
             <=> rootParses /\ EntriesWithSuffix(RestOf(call.name)) = {}
        /\ call.ret.err = "unknown chord quality" => call.ret.quality = RestOf(call.name)
        /\ call.ret.err /= "nil" => call.ret.root = ZeroNote /\ call.ret.chord = ZeroChord
        /\ call.name = <<>> => call.ret.err = "invalid root note in chord name"
        /\ call.name = <<"H">> => call.ret.err = "invalid root note in chord name"
        /\ call.name = <<"C","m","a","j","9">> => call.ret.err = "unknown chord quality"

C3_Witness ==
  /\ call.op = "ParseChordName"
  /\ call.name = <<"C","m","a","j","9">>
  /\ call.ret.err = "unknown chord quality"
  /\ call.ret.quality = <<"m","a","j","9">>

\* The pitch class of each natural letter, in either case.
NaturalClass ==
  [c \in Letters \cup {"a", "b", "c", "d", "e", "f", "g"} |->
     CASE c \in {"C", "c"} -> 0 [] c \in {"D", "d"} -> 2 [] c \in {"E", "e"} -> 4
       [] c \in {"F", "f"} -> 5 [] c \in {"G", "g"} -> 7 [] c \in {"A", "a"} -> 9
       [] c \in {"B", "b"} -> 11]

WellFormedPitch(s) ==
  /\ Len(s) \in {1, 2}
  /\ s[1] \in DOMAIN NaturalClass
  /\ Len(s) = 2 => s[2] \in {"#", "b", "B"}

ExpectedClass(s) ==
  (NaturalClass[s[1]] + (IF Len(s) = 1 THEN 0 ELSE IF s[2] = "#" THEN 1 ELSE 11)) % 12

\* C4: ParseNote succeeds exactly on a letter A-G in either case optionally
\* followed by one accidental (#, b or B); the pitch class is then the
\* letter's natural class plus 1 for a sharp, minus 1 for a flat, modulo 12,
\* and Original is the token unchanged; every other token (empty, double
\* accidental, digit, unknown letter) gets an error.
C4_ParseNoteExact ==
  call.op = "ParseNote" =>
    /\ call.ret.err = "nil" <=> WellFormedPitch(call.s)
    /\ WellFormedPitch(call.s) =>
         /\ call.ret.note.Value \in 0..11
         /\ call.ret.note.Value = ExpectedClass(call.s)
         /\ call.ret.note.Original = call.s
    /\ ~WellFormedPitch(call.s) =>
         /\ call.ret.err \in {"cannot parse empty string", "unrecognized note"}
         /\ call.ret.note = ZeroNote
    /\ call.s \in { <<"C","#">>, <<"D","b">> } => call.ret.note.Value = 1
    /\ call.s = <<"B","#">> => call.ret.note.Value = 0
    /\ call.s = <<"C","b">> => call.ret.note.Value = 11

C4_Witness ==
  /\ call.op = "ParseNote"
  /\ call.s = <<"D","b">>
  /\ call.ret = [note |-> Note(<<"D","b">>, 1), err |-> "nil"]

PitchClassesOf(notes) == {notes[i].Value : i \in 1..Len(notes)}

Reverse(s) == [i \in 1..Len(s) |-> s[Len(s) + 1 - i]]

MajorKey(root) == root \o <<" ","M","a","j","o","r">>

MinorKey(root) == root \o <<" ","M","i","n","o","r">>

\* The keys of the table that hold at least one of the pitch classes.
KeysTouching(pcs) ==
  {k \in 1..Len(keySignatures) : keySignatures[k].Notes \cap pcs /= {}}

RankedBefore(a, b) ==
  \/ a.MatchCount > b.MatchCount
  \/ a.MatchCount = b.MatchCount /\ StringLess(a.Name, b.Name)

\* C5: Estimate returns one entry for each key of the table that holds at
\* least one of the input's distinct pitch classes and none for any other
\* key; the count is the number of distinct input pitch classes in the key;
\* repeating or reordering the notes changes nothing; entries are ordered by
\* count descending, then by name ascending; nothing is cut off, and an
\* empty input gives an empty result.
C5_EstimateRanking ==
  call.op = "Estimate" =>
    LET pcs == PitchClassesOf(call.notes)
        touching == KeysTouching(pcs)
    IN  /\ Len(call.ret) = Cardinality(touching)
        /\ {call.ret[i].Name : i \in 1..Len(call.ret)}
             = {keySignatures[k].Name : k \in touching}
        /\ \A i \in 1..Len(call.ret) : \A k \in 1..Len(keySignatures) :
             keySignatures[k].Name = call.ret[i].Name
               => call.ret[i].MatchCount = Cardinality(keySignatures[k].Notes \cap pcs)
        /\ \A i, j \in 1..Len(call.ret) : i < j => RankedBefore(call.ret[i], call.ret[j])
        /\ call.ret = Estimate(Reverse(call.notes))
        /\ call.ret = Estimate(call.notes \o call.notes)
        /\ call.notes = <<>> => call.ret = <<>>

C5_Witness ==
  /\ call.op = "Estimate"
  /\ call.notes = <<CanonicalNote(4), CanonicalNote(0)>>
  /\ Len(call.ret) < Len(keySignatures)
  /\ \E i \in 1..(Len(call.ret) - 1) :
       /\ call.ret[i].MatchCount = 2 /\ call.ret[i + 1].MatchCount = 2
       /\ StringLess(call.ret[i].Name, call.ret[i + 1].Name)
  /\ \E i \in 1..(Len(call.ret) - 1) :
       call.ret[i].MatchCount = 2 /\ call.ret[i + 1].MatchCount = 1

CDEFGA == [i \in 1..6 |-> CanonicalNote(<<0, 2, 4, 5, 7, 9>>[i])]

EntriesWithCount(matches, n) ==
  SelectSeq(matches, LAMBDA m : m.MatchCount = n)

\* C6 as stated: Estimate on C, D, E, F, G, A puts "C Major" (6 matches)
\* first, and the keys with 5 matches follow in alphabetical order.
C6_CMajorFirst ==
  call.op = "Estimate" /\ call.notes = CDEFGA =>
    /\ call.ret[1] = KeyMatch(MajorKey(<<"C">>), 6)
    /\ \A i, j \in 1..Len(call.ret) :
         i < j /\ call.ret[i].MatchCount = 5 /\ call.ret[j].MatchCount = 5
           => StringLess(call.ret[i].Name, call.ret[j].Name)

\* C6 amended: Estimate on C, D, E, F, G, A gives "C Major" 6 matches but
\* ranks it second, after "A Minor" (same pitch classes, 6 matches); the four
\* keys with 6 matches come first in alphabetical order (A Minor, C Major,
\* D Minor, F Major), and the keys with 5 matches follow them in alphabetical
\* order of name.
C6_CMajorSecondAfterAMinor ==
  call.op = "Estimate" /\ call.notes = CDEFGA =>
    /\ SubSeq(call.ret, 1, 4) =
         << KeyMatch(MinorKey(<<"A">>), 6), KeyMatch(MajorKey(<<"C">>), 6),
            KeyMatch(MinorKey(<<"D">>), 6), KeyMatch(MajorKey(<<"F">>), 6) >>
    /\ EntriesWithCount(call.ret, 6) = SubSeq(call.ret, 1, 4)
    /\ EntriesWithCount(call.ret, 5) =
         << KeyMatch(MajorKey(<<"B","b">>), 5), KeyMatch(MinorKey(<<"E">>), 5),
            KeyMatch(MajorKey(<<"G">>), 5), KeyMatch(MinorKey(<<"G">>), 5) >>
    /\ SubSeq(call.ret, 5, 8) = EntriesWithCount(call.ret, 5)

C6_Witness ==
  /\ call.op = "Estimate"
  /\ call.notes = CDEFGA
  /\ call.ret[2] = KeyMatch(MajorKey(<<"C">>), 6)

CGAmF == << <<"C">>, <<"G">>, <<"A","m">>, <<"F">> >>

AggregatedLine(stdout) ==
  SelectSeq(stdout, LAMBDA l : l.fmt = "Aggregated Notes: %s")

KeyLines(stdout) ==
  SelectSeq(stdout, LAMBDA l : l.fmt = " %s (%d matches)")

\* C7 as stated: --keys C G Am F reports the aggregated notes C D E F G A
\* and a ranking that begins C Major (6), A Minor (5), F Major (5),
\* G Major (5).
C7_ReadmeOutput ==
  call.op = "runKeyEstimationFromArgs" /\ call.chordNames = CGAmF =>
    /\ AggregatedLine(call.stdout) =
         << Line("Aggregated Notes: %s",
                 << <<"C"," ","D"," ","E"," ","F"," ","G"," ","A">> >>) >>
    /\ Len(KeyLines(call.stdout)) >= 4
    /\ SubSeq(KeyLines(call.stdout), 1, 4) =
         << Line(" %s (%d matches)", <<MajorKey(<<"C">>), 6>>),
            Line(" %s (%d matches)", <<MinorKey(<<"A">>), 5>>),
            Line(" %s (%d matches)", <<MajorKey(<<"F">>), 5>>),
            Line(" %s (%d matches)", <<MajorKey(<<"G">>), 5>>) >>

\* C7 amended: --keys C G Am F reports the aggregated notes C D E F G A B
\* (the chord G brings B) and a ranking that begins A Minor (7 matches),
\* C Major (7 matches), D Minor (6), E Minor (6), F Major (6), G Major (6);
\* the run leaves the exit code 0 and writes nothing to stderr.
C7_KeysFromCGAmF ==
  call.op = "runKeyEstimationFromArgs" /\ call.chordNames = CGAmF =>
    /\ call.stdout[1] =
         Line("Processing Chords: %s", << <<"C"," ","G"," ","A","m"," ","F">> >>)
    /\ AggregatedLine(call.stdout) =
         << Line("Aggregated Notes: %s",
                 << <<"C"," ","D"," ","E"," ","F"," ","G"," ","A"," ","B">> >>) >>
    /\ Len(KeyLines(call.stdout)) >= 6
    /\ SubSeq(KeyLines(call.stdout), 1, 6) =
         << Line(" %s (%d matches)", <<MinorKey(<<"A">>), 7>>),
            Line(" %s (%d matches)", <<MajorKey(<<"C">>), 7>>),
            Line(" %s (%d matches)", <<MinorKey(<<"D">>), 6>>),
            Line(" %s (%d matches)", <<MinorKey(<<"E">>), 6>>),
            Line(" %s (%d matches)", <<MajorKey(<<"F">>), 6>>),
            Line(" %s (%d matches)", <<MajorKey(<<"G">>), 6>>) >>
    /\ call.stderr = <<>>
    /\ exitCode = 0

C7_Witness ==
  /\ call.op = "runKeyEstimationFromArgs"
  /\ call.chordNames = CGAmF
  /\ Len(KeyLines(call.stdout)) = 24
  /\ KeyLines(call.stdout)[2] = Line(" %s (%d matches)", <<MajorKey(<<"C">>), 7>>)

\* The position of the first note of a pitch class in a list.
FirstIndex(notes, v) ==
  CHOOSE i \in 1..Len(notes) :
    notes[i].Value = v /\ \A j \in 1..(i - 1) : notes[j].Value /= v

\* C8: Unique is idempotent; its result holds exactly one note per pitch
\* class of the input, that note is the input's first note of the class with
\* its spelling, and the notes keep the order of those first occurrences.
C8_UniqueFirstSeen ==
  call.op = "Unique" =>
    /\ Unique(call.ret) = call.ret
    /\ PitchClassesOf(call.ret) = PitchClassesOf(call.notes)
    /\ Len(call.ret) = Cardinality(PitchClassesOf(call.notes))
    /\ \A i \in 1..Len(call.ret) :
         call.ret[i] = call.notes[FirstIndex(call.notes, call.ret[i].Value)]
    /\ \A i, j \in 1..Len(call.ret) :
         i < j => FirstIndex(call.notes, call.ret[i].Value)
                    < FirstIndex(call.notes, call.ret[j].Value)

C8_Witness ==
  /\ call.op = "Unique"
  /\ call.notes = << Note(<<"B","#">>, 0), Note(<<"D","b">>, 1), Note(<<"C">>, 0) >>
  /\ call.ret = << Note(<<"B","#">>, 0), Note(<<"D","b">>, 1) >>

\* The lists that add one value to a list: behind it, or in place in the
\* ascending list of its values.
OneMore(intervals) ==
  UNION {{ intervals \o <<e>>, Ascending(Range(intervals) \cup {e}) } : e \in PitchClasses}

\* C9: every chord definition FindMatches returns for a list is returned for
\* every list that holds the same values and one more value of 0..11 (and so,
\* step by step, any number of extra values).
C9_SubsetMatchingMonotonic ==
  call.op = "FindMatches" =>
    \A more \in OneMore(call.intervals) :
       Range(call.ret) \subseteq Range(FindMatches(more))

C9_Witness ==
  /\ call.op = "FindMatches"
  /\ call.intervals = <<0, 3, 7>>
  /\ MatchNames(call.ret) = <<"Minor Triad">>
  /\ MatchNames(FindMatches(<<0, 3, 7, 10>>)) = <<"Minor 7th", "Minor Triad">>

Am7 == ParseChordName(<<"A","m","7">>)

\* C10: GenerateNotes returns one note per offset, in offset order, with
\* pitch class (root + offset) mod 12 and the sharp-based name of that class
\* as spelling, and does not panic; Am7 parses to root A (9) and Minor 7th
\* {0,3,7,10}, and the notes generated from them are A, C, E, G (9, 0, 4, 7).
C10_GenerateNotes ==
  call.op = "GenerateNotes" =>
    /\ ~call.panicked
    /\ Len(call.ret) = Len(call.intervals)
    /\ \A i \in 1..Len(call.ret) :
         /\ call.ret[i].Value = (call.root.Value + call.intervals[i]) % 12
         /\ call.ret[i].Original = valueToName[call.ret[i].Value + 1]
    /\ Am7.err = "nil" /\ Am7.root = Note(<<"A">>, 9)
    /\ Am7.chord.Name = "Minor 7th" /\ Am7.chord.Intervals = <<0, 3, 7, 10>>
    /\ call.root = Am7.root /\ call.intervals = Am7.chord.Intervals =>
         call.ret = << Note(<<"A">>, 9), Note(<<"C">>, 0), Note(<<"E">>, 4), Note(<<"G">>, 7) >>

C10_Witness ==
  /\ call.op = "GenerateNotes"
  /\ call.root = Note(<<"A">>, 9)
  /\ call.intervals = <<0, 3, 7, 10>>
  /\ [i \in 1..Len(call.ret) |-> call.ret[i].Value] = <<9, 0, 4, 7>>

\* C13 as stated: every note GenerateNotes produces carries an empty
\* Original.
C13_GeneratedOriginalEmpty ==
  call.op = "GenerateNotes" /\ ~call.panicked =>
    \A i \in 1..Len(call.ret) : call.ret[i].Original = <<>>

\* The canonical, sharp-based spelling of a pitch class.
SharpSpelling ==
  << <<"C">>, <<"C","#">>, <<"D">>, <<"D","#">>, <<"E">>, <<"F">>,
     <<"F","#">>, <<"G">>, <<"G","#">>, <<"A">>, <<"A","#">>, <<"B">> >>

\* The flat-based spelling of a pitch class.
FlatSpelling ==
  << <<"C">>, <<"D","b">>, <<"D">>, <<"E","b">>, <<"E">>, <<"F">>,
     <<"G","b">>, <<"G">>, <<"A","b">>, <<"A">>, <<"B","b">>, <<"B">> >>

\* C13, amended: every note GenerateNotes produces carries a non-empty
\* Original, the canonical sharp-based spelling of its pitch class, and
\* SliceToString prints those spellings; a note ParseNote produces carries
\* the parsed token, which is not empty, as Original.
C13_GeneratedOriginalCanonical ==
  /\ call.op = "GenerateNotes" /\ ~call.panicked =>
       /\ \A i \in 1..Len(call.ret) :
            /\ call.ret[i].Original /= <<>>
            /\ call.ret[i].Original = SharpSpelling[call.ret[i].Value + 1]
       /\ SliceToString(call.ret) =
            Join([i \in 1..Len(call.ret) |-> SharpSpelling[call.ret[i].Value + 1]], " ")
  /\ call.op = "ParseNote" /\ call.ret.err = "nil" =>
       call.ret.note.Original = call.s /\ call.ret.note.Original /= <<>>

C13_Witness ==
  /\ call.op = "GenerateNotes"
  /\ call.root = Note(<<"B","b">>, 10)
  /\ call.intervals = <<0, 4, 7>>
  /\ call.ret = << Note(<<"A","#">>, 10), Note(<<"D">>, 2), Note(<<"F">>, 5) >>

MajorPitches(i) == {(i + d) % 12 : d \in {0, 2, 4, 5, 7, 9, 11}}

MinorPitches(i) == {(i + d) % 12 : d \in {0, 2, 3, 5, 7, 8, 10}}

\* The table of the claim, in the order init appends the keys: for each
\* root i in 0..11 the major key named with the flat spelling of i, then the
\* minor key named with the sharp spelling of i.
DescribedKeys ==
  [k \in 1..24 |->
     IF k % 2 = 1
     THEN Key(MajorKey(FlatSpelling[(k + 1) \div 2]), MajorPitches((k - 1) \div 2))
     ELSE Key(MinorKey(SharpSpelling[k \div 2]), MinorPitches((k - 2) \div 2))]

\* C14: in every state the key-signature table holds exactly 24 keys with
\* pairwise distinct names: for each root i in 0..11 the major key named with
\* the flat spelling of i, with pitches {(i+d) mod 12 : d in 0,2,4,5,7,9,11},
\* and the minor key named with the sharp spelling of i, with pitches
\* {(i+d) mod 12 : d in 0,2,3,5,7,8,10}; every set has 7 members in 0..11.
C14_KeySignatureTable ==
  /\ keySignatures = DescribedKeys
  /\ Len(keySignatures) = 24
  /\ Cardinality({keySignatures[k].Name : k \in 1..Len(keySignatures)}) = 24
  /\ \A k \in 1..Len(keySignatures) :
       /\ Cardinality(keySignatures[k].Notes) = 7
       /\ keySignatures[k].Notes \subseteq 0..11

C14_Witness ==
  /\ pc = "called"
  /\ call.op = "Estimate"
  /\ Len(call.ret) = 24
  /\ Key(MajorKey(<<"G","b">>), {6, 8, 10, 11, 1, 3, 5}) \in Range(keySignatures)
  /\ Key(MinorKey(<<"A","#">>), {10, 0, 1, 3, 5, 6, 8}) \in Range(keySignatures)

\* The match count a result gives a key, 0 when the key is not in it.
CountIn(matches, name) ==
  IF \E i \in 1..Len(matches) : matches[i].Name = name
  THEN (CHOOSE m \in Range(matches) : m.Name = name).MatchCount
  ELSE 0

IsMajor(name) == \E i \in 0..11 : name = MajorKey(FlatSpelling[i + 1])

\* C16: Estimate gives the major key at root r and the minor key at root
\* (r+9) mod 12 the same match count; a major key is never the only key at
\* its count; the result has an even number of entries; A Minor precedes
\* C Major in every result holding them.
C16_RelativeKeysTie ==
  call.op = "Estimate" =>
    /\ \A r \in 0..11 :
         CountIn(call.ret, MajorKey(FlatSpelling[r + 1])) =
         CountIn(call.ret, MinorKey(SharpSpelling[((r + 9) % 12) + 1]))
    /\ \A i \in 1..Len(call.ret) :
         IsMajor(call.ret[i].Name) =>
           \E j \in 1..Len(call.ret) :
              j /= i /\ call.ret[j].MatchCount = call.ret[i].MatchCount
    /\ Len(call.ret) % 2 = 0
    /\ \A i, j \in 1..Len(call.ret) :
         call.ret[i].Name = MinorKey(<<"A">>) /\ call.ret[j].Name = MajorKey(<<"C">>) =>
           i < j

C16_Witness ==
  /\ call.op = "Estimate"
  /\ call.notes = << CanonicalNote(11), CanonicalNote(5) >>
  /\ Len(call.ret) = 24
  /\ call.ret[1] = KeyMatch(MinorKey(<<"A">>), 2)
  /\ call.ret[2] = KeyMatch(MajorKey(<<"C">>), 2)
  /\ call.ret[3] = KeyMatch(MinorKey(<<"D","#">>), 2)
  /\ call.ret[4] = KeyMatch(MajorKey(<<"G","b">>), 2)

DictionaryIntervals == {chordDictionary[i].Intervals : i \in DictionaryIndexes}

IsAscending(intervals) ==
  \A i \in 1..(Len(intervals) - 1) : intervals[i] < intervals[i + 1]

\* C17: for a root of pitch class 0..11 and the intervals of a dictionary
\* entry D, CalculateIntervals(root, GenerateNotes(root, D.Intervals)) is
\* D.Intervals (ascending, within 0..11, 0 included) and FindMatches on it
\* holds D; for every chord name ParseChordName accepts, FindMatches on the
\* intervals, from the parsed root, of the notes generated from the parsed
\* chord holds the parsed chord.
C17_DictionaryRoundTrip ==
  /\ call.op = "GenerateNotes" /\ call.root.Value \in 0..11
       /\ call.intervals \in DictionaryIntervals =>
       LET intervals == CalculateIntervals(call.root, call.ret)
       IN  /\ ~call.panicked
           /\ intervals = call.intervals
           /\ IsAscending(intervals)
           /\ Range(intervals) \subseteq 0..11
           /\ 0 \in Range(intervals)
           /\ \A i \in DictionaryIndexes :
                chordDictionary[i].Intervals = call.intervals =>
                  Match(chordDictionary[i].Name, chordDictionary[i].Intervals)
                    \in Range(FindMatches(intervals))
  /\ call.op = "ParseChordName" /\ ~call.ret.panicked /\ call.ret.err = "nil" =>
       LET root == call.ret.root
           chord == call.ret.chord
       IN  Match(chord.Name, chord.Intervals) \in
             Range(FindMatches(CalculateIntervals(root, GenerateNotes(root, chord.Intervals))))

C17_Witness ==
  /\ call.op = "GenerateNotes"
  /\ call.root = CanonicalNote(11)
  /\ call.intervals = <<0, 4, 7, 11>>
  /\ [i \in 1..Len(call.ret) |-> call.ret[i].Value] = <<11, 3, 6, 10>>
  /\ CalculateIntervals(call.root, call.ret) = <<0, 4, 7, 11>>

\* The ways to read a name as a well-formed root of one or two characters
\* followed by a dictionary suffix.
Readings(name) ==
  {k \in 1..2 : /\ k <= Len(name)
               /\ WellFormedPitch(SubSeq(name, 1, k))
               /\ EntriesWithSuffix(SubSeq(name, k + 1, Len(name))) /= {}}

\* C18: every quality suffix belongs to exactly one dictionary entry; no
\* suffix begins with #, b or B; for a name made of a valid root of one or
\* two characters and a dictionary suffix, ParseChordName returns that root
\* and the entry of that suffix; ParseChordName rejects no name whose first
\* character is a root and whose remainder is a dictionary suffix.
C18_ParsingUnambiguous ==
  /\ pc = "idle" =>
       /\ \A q \in DictionarySuffixes : Cardinality(EntriesWithSuffix(q)) = 1
       /\ \A q \in DictionarySuffixes : q = <<>> \/ q[1] \notin {"#", "b", "B"}
  /\ call.op = "ParseChordName" =>
       /\ \A k \in Readings(call.name) :
            /\ ~call.ret.panicked
            /\ call.ret.err = "nil"
            /\ call.ret.root = Note(SubSeq(call.name, 1, k),
                                    ExpectedClass(SubSeq(call.name, 1, k)))
            /\ \E i \in EntriesWithSuffix(SubSeq(call.name, k + 1, Len(call.name))) :
                 call.ret.chord = chordDictionary[i]
       /\ 1 \in Readings(call.name) => call.ret.err = "nil"

C18_Witness ==
  /\ call.op = "ParseChordName"
  /\ call.name = <<"B","b","m","7">>
  /\ Readings(call.name) = {2}
  /\ call.ret.err = "nil"
  /\ call.ret.root = Note(<<"B","b">>, 10)
  /\ call.ret.chord.Intervals = <<0, 3, 7, 10>>

(***************************************************************************)
(* Claims about the command line, checked under CliSpec                    *)
(***************************************************************************)
\* C11 as stated: whenever --batch names a file (and --help is not given),
\* main runs batch processing on it, with or without --keys.
C11_BatchFlagRunsBatchMode ==
  call.op = "main" /\ call.flags.batch /= "" /\ ~call.flags.help =>
    call.run.mode = "runBatchMode"

\* The note tokens a chord-identification run works on, trimmed, blanks
\* dropped.
NoteTokens(flags, args) ==
  SelectSeq([i \in 1..Len(IF flags.notes /= <<>> THEN SplitComma(flags.notes) ELSE args) |->
               TrimSpace((IF flags.notes /= <<>> THEN SplitComma(flags.notes) ELSE args)[i])],
            LAMBDA t : t /= <<>>)

AllSpellPitches(tokens) ==
  tokens /= <<>> /\ \A i \in 1..Len(tokens) : WellFormedPitch(tokens[i])

AllChordNamesParse(names) ==
  names /= <<>> /\ \A i \in 1..Len(names) :
     /\ TwoCharRoot(names[i]) \/ OneCharRoot(names[i])
     /\ EntriesWithSuffix(RestOf(names[i])) /= {}

\* C12: every run calls exit, and the code reported is that of the first
\* call: 0 with --help; 1, with no matching run, in chord identification
\* without note tokens; 1, with no estimation run, with --keys, no --batch
\* and no chord names; 0 when all notes, or all chord names, parse (C E G;
\* --keys C G Am).
C12_ExitCodes ==
  call.op = "main" =>
    LET flags == call.flags
        run == call.run
    IN  /\ Len(run.exits) >= 1
        /\ run.reported = run.exits[1]
        /\ flags.help => run.reported = 0 /\ run.stdout = <<>>
        /\ ~flags.help /\ ~flags.keys /\ flags.notes = <<>> /\ call.args = <<>> =>
             /\ run.reported = 1
             /\ run.mode = "no notes"
             /\ run.stdout = <<>>
             /\ run.stderr = << Line("Error: No notes provided.", <<>>) >>
        /\ ~flags.help /\ flags.keys /\ flags.batch = "" /\ call.args = <<>> =>
             /\ run.reported = 1
             /\ run.mode = "no chord names"
             /\ run.stdout = <<>>
        /\ ~flags.help /\ ~flags.keys /\ AllSpellPitches(NoteTokens(flags, call.args)) =>
             /\ run.reported = 0
             /\ run.mode = "runSingleChordMode"
             /\ flags.notes = <<>> \/ call.args = <<>> => run.stderr = <<>>
        /\ ~flags.help /\ flags.keys /\ flags.batch = "" /\ AllChordNamesParse(call.args) =>
             /\ run.reported = 0
             /\ run.mode = "runKeyEstimationFromArgs"
             /\ run.stderr = <<>>

C12_Witness ==
  /\ call.op = "main"
  /\ call.flags = [help |-> FALSE, keys |-> TRUE, batch |-> "", notes |-> <<>>,
                   inversions |-> FALSE, verbose |-> FALSE]
  /\ call.args = << <<"C">>, <<"G">>, <<"A","m">> >>
  /\ call.run.exits = <<0>>
  /\ \E i \in 1..Len(call.run.stdout) :
       call.run.stdout[i] = Line(" %s (%d matches)", <<MajorKey(<<"C">>), 6>>)

\* A line of a batch file is skipped when it is blank or one of its tokens
\* spells no pitch.
SkippedLine(text) ==
  \/ TrimSpace(text) = <<>>
  \/ \E i \in 1..Len(Fields(text)) : ~WellFormedPitch(Fields(text)[i])

SkippedLines(lines) == {i \in 1..Len(lines) : SkippedLine(lines[i])}

\* The notes of the lines that are not skipped, line after line.
RECURSIVE NotesOfValidLines(_)
NotesOfValidLines(lines) ==
  IF lines = <<>> THEN <<>>
  ELSE (IF SkippedLine(Head(lines)) THEN <<>>
        ELSE [i \in 1..Len(Fields(Head(lines))) |->
                Note(Fields(Head(lines))[i], ExpectedClass(Fields(Head(lines))[i]))])
       \o NotesOfValidLines(Tail(lines))

LineNumbers(printed) == [i \in 1..Len(printed) |-> printed[i].args[1]]

MatchOutput(stdout) ==
  SelectSeq(stdout, LAMBDA l : l.fmt \in {"[%d] %s -> No match found", "[%d] %s -> %s"})

EstimationOutput(stdout) ==
  SelectSeq(stdout, LAMBDA l : l.fmt \notin {"[%d] %s -> No match found", "[%d] %s -> %s",
                                            "Processing %s..."})

\* C15 as stated, for every file that opens: in batch mode with --keys each
\* blank line and each line with an unparseable note is reported with its
\* number and skipped whole, the other lines get their match output, the key
\* estimation is printed over the notes of the valid lines, and the reported
\* exit code is 2 exactly when a line was skipped, 0 when none was.
C15_EveryOpenedFile ==
  call.op = "main" /\ ~call.flags.help /\ call.flags.keys /\ call.flags.batch /= ""
    /\ call.file.exists /\ ~call.file.statErr =>
    LET lines == call.file.lines
        run == call.run
        skipped == SkippedLines(lines)
    IN  /\ \E k \in 0..Len(run.stderr) :
             LineNumbers(SubSeq(run.stderr, 1, k)) = Ascending(skipped)
        /\ LineNumbers(MatchOutput(run.stdout)) = Ascending((1..Len(lines)) \ skipped)
        /\ call.file.size > 0 =>
             EstimationOutput(run.stdout) = printKeyEstimation(NotesOfValidLines(lines))
        /\ run.reported = 2 <=> skipped /= {}
        /\ skipped = {} => run.reported = 0

\* C15, amended: in batch mode with --keys on a file that opens, each blank
\* line and each line with an unparseable note that the scanner yields is
\* reported with its number and skipped whole, and the other lines, before
\* and after it, get their match output.  When the file is read to its end,
\* the key estimation is printed over the notes of the valid lines only
\* (unless the file is empty) and the reported exit code is 2 exactly when a
\* line was skipped, 0 when none was.  When the scanner stops with an error,
\* the error is reported after those of the lines, no key estimation is
\* printed and the reported exit code is 1, whether or not a line was
\* skipped.
C15_BatchSkipsBadLines ==
  call.op = "main" /\ ~call.flags.help /\ call.flags.keys /\ call.flags.batch /= ""
    /\ call.file.exists /\ ~call.file.statErr =>
    LET lines == call.file.lines
        run == call.run
        skipped == SkippedLines(lines)
    IN  /\ LineNumbers(MatchOutput(run.stdout)) = Ascending((1..Len(lines)) \ skipped)
        /\ call.file.scanErr = "nil" =>
             /\ LineNumbers(run.stderr) = Ascending(skipped)
             /\ call.file.size > 0 =>
                  EstimationOutput(run.stdout) = printKeyEstimation(NotesOfValidLines(lines))
             /\ run.reported = 2 <=> skipped /= {}
             /\ skipped = {} => run.reported = 0
        /\ call.file.scanErr /= "nil" =>
             /\ Len(run.stderr) = Cardinality(skipped) + 1
             /\ LineNumbers(SubSeq(run.stderr, 1, Len(run.stderr) - 1)) = Ascending(skipped)
             /\ run.stderr[Len(run.stderr)] =
                  Line("Error reading file: %v", <<call.file.scanErr>>)
             /\ EstimationOutput(run.stdout) = <<>>
             /\ run.reported = 1

C15_Witness ==
  /\ call.op = "main"
  /\ ~call.flags.help /\ call.flags.keys /\ call.flags.batch = "chords.txt"
  /\ call.file = OpenedFile(<< <<" ","C"," "," ","X"," ","G"," ">>,
                               <<"D"," ","A"," ","F","#">> >>)
  /\ call.run.reported = 2
  /\ LineNumbers(call.run.stderr) = <<1>>
  /\ \E i \in 1..Len(call.run.stdout) :
       call.run.stdout[i] = Line("Aggregated Notes: %s", << <<"D"," ","F","#"," ","A">> >>)

====
